---------------------------- MODULE Spec2Model ----------------------------
(***************************************************************************)
(* A model of src/app.py, the Streamlit "Network Log Translator".          *)
(*                                                                         *)
(* Texts are TLA+ strings; Len, SubSeq and \o act on them character by     *)
(* character, which is how Python's str methods used by the program        *)
(* (lower, in, startswith, slicing, strip) are computed below.             *)
(*                                                                         *)
(* Two specifications:                                                     *)
(*   SpecFn - the module-level functions (classify_error, get_severity,    *)
(*            generate_explanation, speech_to_text, the language-code      *)
(*            lookup) applied to inputs drawn from bounded sets;           *)
(*   Spec   - one user session of the app: every user interaction starts   *)
(*            one run of main() over the session state and widget state.   *)
(*                                                                         *)
(* Streamlit's execution model, as the script relies on it: a run executes *)
(* main() top to bottom; a button reads True only in the run its press     *)
(* started; a widget keeps its value from run to run while it is on the    *)
(* page and starts from its default when it was not on the page in the     *)
(* previous run; st.session_state lasts for the session.                   *)
(***************************************************************************)
EXTENDS Naturals, Sequences, FiniteSets, TLC

VARIABLES
    fn,             \* SpecFn: the function last called ("none" before any call)
    arg,            \* SpecFn: the input the harness holds
    res,            \* SpecFn: what the last call returned / sent / displayed
    api_key,        \* os.getenv("GROQ_API_KEY") is set (fixed for the process)
    session_state,  \* st.session_state: [present, history, input_text]
    widgets,        \* the front end's widget values
    out,            \* what the last run of main() did and displayed
    clipboard       \* the system clipboard (pyperclip)

vars == <<fn, arg, res, api_key, session_state, widgets, out, clipboard>>

-----------------------------------------------------------------------------
(* Bounds *)

\* how many fragments of Frags an input text is built from
MaxFrags == 2
\* how many analyses a session records before the model stops analysing
MaxHistory == 5

-----------------------------------------------------------------------------
(* Python str operations *)

Min(a, b) == IF a < b THEN a ELSE b

UpperCase == "ABCDEFGHIJKLMNOPQRSTUVWXYZ"
LowerCase == "abcdefghijklmnopqrstuvwxyz"

\* str.lower() of one character (ASCII letters; every other character of the
\* model's texts is its own lower case)
UpperChars == {SubSeq(UpperCase, i, i) : i \in 1..Len(UpperCase)}

ToLower ==
    [c \in UpperChars |->
        LET i == CHOOSE j \in 1..Len(UpperCase) : SubSeq(UpperCase, j, j) = c
        IN  SubSeq(LowerCase, i, i)]

lower_char(c) == IF c \in UpperChars THEN ToLower[c] ELSE c

RECURSIVE lower(_)
lower(s) ==
    IF Len(s) = 0 THEN ""
    ELSE lower_char(SubSeq(s, 1, 1)) \o lower(SubSeq(s, 2, Len(s)))

\* kw in text
contains(text, kw) ==
    \E i \in 0..(Len(text) - Len(kw)) : SubSeq(text, i + 1, i + Len(kw)) = kw

\* s.startswith(p)
startswith(s, p) == Len(p) <= Len(s) /\ SubSeq(s, 1, Len(p)) = p

\* s[:n]
prefix(s, n) == SubSeq(s, 1, Min(n, Len(s)))

Whitespace == {" ", "\t", "\n"}

\* s.strip()
RECURSIVE lstrip(_)
lstrip(s) ==
    IF Len(s) > 0 /\ SubSeq(s, 1, 1) \in Whitespace
    THEN lstrip(SubSeq(s, 2, Len(s)))
    ELSE s

RECURSIVE rstrip(_)
rstrip(s) ==
    IF Len(s) > 0 /\ SubSeq(s, Len(s), Len(s)) \in Whitespace
    THEN rstrip(SubSeq(s, 1, Len(s) - 1))
    ELSE s

\* the emptiness test without strip()
strip_nothing(s) == s

strip(s) == rstrip(lstrip(s))

\* Python truthiness of an optional string: None and "" are falsy.  None is
\* modelled as the record NoneValue, a string s as [some |-> TRUE, v |-> s].
NoneValue == [some |-> FALSE, v |-> ""]
Some(s) == [some |-> TRUE, v |-> s]
\* a test for None alone: `explanation is None`
truthy_not_none(o) == o.some

truthy(o) == o.some /\ o.v # ""

-----------------------------------------------------------------------------
(* Constant tables *)

\* COMMON_ERRORS, in dict order
COMMON_ERRORS == <<
    [error |-> "DNS_PROBE_FINISHED_NO_INTERNET",
     desc  |-> "DNS resolution failed. Unable to connect to internet."],
    [error |-> "Connection Timed Out",
     desc  |-> "Network connection could not be established within expected timeframe."],
    [error |-> "No Route to Host",
     desc  |-> "Network path to destination is unavailable."],
    [error |-> "Connection Refused",
     desc  |-> "Remote server rejected connection attempt."],
    [error |-> "SSL Handshake Failed",
     desc  |-> "Secure connection could not be established."] >>

\* LANGUAGE_CODES, in dict order
LANGUAGE_CODES == <<
    [k |-> "English",   v |-> "en-US"],
    [k |-> "Urdu",      v |-> "ur-PK"],
    [k |-> "Spanish",   v |-> "es-ES"],
    [k |-> "French",    v |-> "fr-FR"],
    [k |-> "Arabic",    v |-> "ar-SA"],
    [k |-> "Afrikaans", v |-> "af-ZA"],
    [k |-> "Zulu",      v |-> "zu-ZA"],
    [k |-> "Xhosa",     v |-> "xh-ZA"],
    [k |-> "Sotho",     v |-> "st-ZA"],
    [k |-> "Tswana",    v |-> "tn-ZA"] >>

LanguageNames == {LANGUAGE_CODES[i].k : i \in 1..Len(LANGUAGE_CODES)}

\* LANGUAGE_CODES[name]
language_code_of(name) ==
    LET i == CHOOSE j \in 1..Len(LANGUAGE_CODES) : LANGUAGE_CODES[j].k = name
    IN  LANGUAGE_CODES[i].v

-----------------------------------------------------------------------------
(* classify_error *)

error_types == <<
    [etype |-> "DNS",        keywords |-> <<"dns", "domain", "server">>],
    [etype |-> "SSL",        keywords |-> <<"ssl", "certificate", "handshake">>],
    [etype |-> "Connection", keywords |-> <<"connection", "timeout", "refused", "route">>] >>

\* any(kw in text_lower for kw in keywords)
any_keyword(text_lower, keywords) ==
    \E j \in 1..Len(keywords) : contains(text_lower, keywords[j])

\* the for loop over error_types.items(), from its i-th item on
RECURSIVE classify_loop(_, _)
classify_loop(text_lower, i) ==
    IF i > Len(error_types) THEN "Network"
    ELSE IF any_keyword(text_lower, error_types[i].keywords)
         THEN error_types[i].etype
         ELSE classify_loop(text_lower, i + 1)

\* classify_error without the lower-casing of its input
classify_no_lower(text) == classify_loop(text, 1)

classify_error(text) == classify_loop(lower(text), 1)

-----------------------------------------------------------------------------
(* get_severity *)

get_severity(text) ==
    LET text_lower == lower(text)
    IN  IF contains(text_lower, "critical") THEN "Critical"
        ELSE IF contains(text_lower, "warning") THEN "Warning"
        ELSE IF contains(text_lower, "severe") THEN "Critical"
        ELSE "Info"

-----------------------------------------------------------------------------
(* User-visible messages: st.info / st.warning / st.error / st.toast *)

Msg(level, text) == [level |-> level, text |-> text]

-----------------------------------------------------------------------------
(* generate_explanation *)

\* system_prompts.  The module's character set is ASCII: the accents of the
\* Spanish and French prompts are dropped, and the Urdu and Arabic prompts
\* stand here as distinct tokens.
system_prompts ==
    [language \in {"en", "es", "fr", "ur", "ar", "af", "zu", "xh", "st", "tn"} |->
        CASE language = "en" -> "You are a network troubleshooting assistant in English."
          [] language = "es" -> "Eres un asistente de solucion de problemas de red en espanol."
          [] language = "fr" -> "Vous etes un assistant de depannage reseau en francais."
          [] language = "ur" -> "<system prompt in Urdu>"
          [] language = "ar" -> "<system prompt in Arabic>"
          [] language = "af" -> "Jy is 'n netwerk-probleemoplossingsassistent in Afrikaans."
          [] language = "zu" -> "Ungusizo lokuxazulula amaproblem emseth-network ngesiZulu."
          [] language = "xh" -> "Ungomnxeba wokusungula amaproblem emanyango ekuqhubekeni ngesiXhosa."
          [] language = "st" -> "O moagi wa bothata ba network ka Sesotho."
          [] language = "tn" -> "O thutapulamolemo ya network ka Setswana."]

InstructionSuffix == " Provide detailed analysis and step-by-step solutions."

\* system_prompts.get(language, 'en')
system_prompts_get(language) ==
    IF language \in DOMAIN system_prompts THEN system_prompts[language] ELSE "en"

\* the messages argument of client.chat.completions.create
messages_of(log_text, language) == <<
    [role |-> "system", content |-> system_prompts_get(language) \o InstructionSuffix],
    [role |-> "user",   content |-> "Analyze this network error: " \o log_text] >>

\* What the chat-completion endpoint does with one call: it raises (transport
\* or API error, or a response whose choices cannot be read), or it answers
\* with a message whose content is None, "" or a text.
ApiRaise == [kind |-> "raise", content |-> NoneValue]
ApiAnswer(content) == [kind |-> "ok", content |-> content]

\* the endpoint in a run that does not call it
NoApi == ApiRaise

\* generate_explanation(client, log_text, language) when the endpoint does `api`:
\* the value returned, the messages displayed, the requests made.
generate_explanation(log_text, language, api) ==
    LET request == messages_of(log_text, language)
    IN  IF api.kind = "raise"
        THEN [ret |-> NoneValue, raised |-> FALSE,
              messages |-> << Msg("error", "API Error: <exception>") >>,
              requests |-> << request >>]
        ELSE [ret |-> api.content, raised |-> FALSE,
              messages |-> << >>,
              requests |-> << request >>]

-----------------------------------------------------------------------------
(* speech_to_text *)

\* What the microphone and the recognizer do in one call.
\*   mic       "ok" | "fail"              sr.Microphone().__enter__
\*   listen    "ok" | "timeout" | "error" r.listen(source, timeout=5)
\*   recognize "ok" | "error"             r.recognize_google(audio, language=...)
\*   transcript                           what recognize_google returns
SpeechEnv(mic, listen, recognize, transcript) ==
    [mic |-> mic, listen |-> listen, recognize |-> recognize, transcript |-> transcript]

\* the microphone in a run that does not open it
NoEnv == SpeechEnv("ok", "ok", "ok", "")

\* speech_to_text(language_code): raised = an exception leaves the function
speech_to_text(language_code, env) ==
    IF env.mic = "fail"
    THEN \* `with sr.Microphone() as source:` is entered outside the try
         [ret |-> NoneValue, raised |-> TRUE, messages |-> << >>, requests |-> << >>]
    ELSE LET listening == Msg("info", "Listening... (5 second timeout)")
         IN  IF env.listen = "timeout"
             THEN [ret |-> Some(""), raised |-> FALSE,
                   messages |-> << listening, Msg("warning", "Listening timed out") >>,
                   requests |-> << >>]
             ELSE IF env.listen = "error" \/ env.recognize = "error"
             THEN [ret |-> Some(""), raised |-> FALSE,
                   messages |-> << listening, Msg("error", "Recognition error: <exception>") >>,
                   requests |-> << >>]
             ELSE [ret |-> Some(env.transcript), raised |-> FALSE,
                   messages |-> << listening >>,
                   requests |-> << >>]

-----------------------------------------------------------------------------
(* the language-code lookup of translator_page *)

\* next((v[:2] for k, v in LANGUAGE_CODES.items()
\*       if k.lower().startswith(selected_lang[:2].lower())), 'en'), from item i on
\* the lookup with the selected name's prefix left in its own case
RECURSIVE lang_code_case_sensitive(_, _)
lang_code_case_sensitive(selected_lang, i) ==
    IF i > Len(LANGUAGE_CODES) THEN "en"
    ELSE IF startswith(lower(LANGUAGE_CODES[i].k), prefix(selected_lang, 2))
         THEN prefix(LANGUAGE_CODES[i].v, 2)
         ELSE lang_code_case_sensitive(selected_lang, i + 1)

RECURSIVE lang_code_loop(_, _)
lang_code_loop(selected_lang, i) ==
    IF i > Len(LANGUAGE_CODES) THEN "en"
    ELSE IF startswith(lower(LANGUAGE_CODES[i].k), lower(prefix(selected_lang, 2)))
         THEN prefix(LANGUAGE_CODES[i].v, 2)
         ELSE lang_code_loop(selected_lang, i + 1)

lang_code(selected_lang) == lang_code_loop(selected_lang, 1)

-----------------------------------------------------------------------------
(* The state of a session before any run of translator_page *)

\* st.session_state of a new session: no key is present
SessionInit == [present |-> {}, history |-> << >>, input_text |-> ""]

\* a widget that is not on the page holds no value
NoTextArea == [rendered |-> FALSE, default |-> "", value |-> ""]

\* the Was this helpful? radio when it is not on the page; on the page its
\* value is "" (index=None: nothing selected) or the option selected
NotShown == "<not shown>"

\* after the first run of main(): the sidebar radio is at its first option
WidgetsInit ==
    [page |-> "Landing Page", selected_lang |-> "", input_method |-> "",
     voice_lang |-> "", text_area |-> NoTextArea, feedback |-> NotShown,
     buttons |-> {}]

NoResult == [shown |-> FALSE, severity |-> "", category |-> "", explanation |-> "",
             fix |-> "", recent |-> << >>]

OutInit ==
    [pressed |-> "none", input_text |-> "", messages |-> << >>, requests |-> << >>,
     api |-> NoApi, raised |-> FALSE, returned |-> FALSE, result |-> NoResult]

InitUI ==
    /\ session_state = SessionInit
    /\ widgets = WidgetsInit
    /\ out = OutInit
    /\ clipboard = ""

-----------------------------------------------------------------------------
(* SpecFn: the functions applied to bounded inputs *)

\* fragments the input texts are built from: the keywords in several cases,
\* pieces that form a keyword only across a join, near misses and fillers
Frags == {"DNS", "Domain", "serv", "er", "SSL", "Certificate", "handshake",
          "Connection", "timeout", "REFUSED", "route", "CRITICAL", "Warning",
          "Severe", "sever", "e", " ", "x", "d", "ns"}

RECURSIVE TextsOf(_)
TextsOf(n) ==
    IF n = 0 THEN {""}
    ELSE LET shorter == TextsOf(n - 1)
         IN  shorter \cup {a \o f : a \in shorter, f \in Frags}

Texts == TextsOf(MaxFrags)

\* language codes handed to generate_explanation: the table's keys and others
LanguageInputs == DOMAIN system_prompts \cup {"de", "EN", "", "en-US", "English"}

\* display names handed to the lookup: the supported names, names that are not
\* supported, and every name of at most MaxFrags characters of NameChars
NameChars == {"a", "A", "r", "f", "e", "n", "s", "o", "S", "x"}

RECURSIVE NamesOf(_)
NamesOf(n) ==
    IF n = 0 THEN {""}
    ELSE LET shorter == NamesOf(n - 1)
         IN  shorter \cup {a \o c : a \in shorter, c \in NameChars}

NameInputs ==
    LanguageNames \cup NamesOf(MaxFrags)
    \cup {"German", "Armenian", "Somali", "Tsonga", "english", "SOTHO", "Klingon",
          "Frisian", "Zu", "urdu ", " English", "Chinese"}

ApiOutcomes ==
    {ApiRaise, ApiAnswer(NoneValue), ApiAnswer(Some("")),
     ApiAnswer(Some("The DNS server is unreachable."))}

SpeechEnvs ==
    {SpeechEnv(m, l, r, t) : m \in {"ok", "fail"}, l \in {"ok", "timeout", "error"},
                             r \in {"ok", "error"}, t \in {"connection refused", "dns error"}}

Arg(kind, v, api, env) == [kind |-> kind, v |-> v, api |-> api, env |-> env]

ArgInputs ==
    {Arg("text", t, NoApi, NoEnv) : t \in Texts}
    \cup {Arg("language", l, a, NoEnv) : l \in LanguageInputs, a \in ApiOutcomes}
    \cup {Arg("name", n, NoApi, NoEnv) : n \in NameInputs}
    \cup {Arg("speech", language_code_of(n), NoApi, e) : n \in LanguageNames, e \in SpeechEnvs}

NoRes == [ret |-> NoneValue, raised |-> FALSE, messages |-> << >>, requests |-> << >>]

\* a function that returns a string, displays nothing and calls nothing
Returned(s) == [ret |-> Some(s), raised |-> FALSE, messages |-> << >>, requests |-> << >>]

LogText == "Connection Refused"

InitFn ==
    /\ fn = "none"
    /\ arg \in ArgInputs
    /\ res = NoRes
    /\ api_key = TRUE
    /\ InitUI

UnchangedUI == UNCHANGED <<api_key, session_state, widgets, out, clipboard>>

Call_classify_error ==
    /\ fn = "none" /\ arg.kind = "text"
    /\ fn' = "classify_error"
    /\ res' = Returned(classify_error(arg.v))
    /\ UNCHANGED arg /\ UnchangedUI

Call_get_severity ==
    /\ fn = "none" /\ arg.kind = "text"
    /\ fn' = "get_severity"
    /\ res' = Returned(get_severity(arg.v))
    /\ UNCHANGED arg /\ UnchangedUI

Call_generate_explanation ==
    /\ fn = "none" /\ arg.kind = "language"
    /\ fn' = "generate_explanation"
    /\ res' = generate_explanation(LogText, arg.v, arg.api)
    /\ UNCHANGED arg /\ UnchangedUI

Call_speech_to_text ==
    /\ fn = "none" /\ arg.kind = "speech"
    /\ fn' = "speech_to_text"
    /\ res' = speech_to_text(arg.v, arg.env)
    /\ UNCHANGED arg /\ UnchangedUI

Call_lang_code ==
    /\ fn = "none" /\ arg.kind = "name"
    /\ fn' = "lang_code"
    /\ res' = Returned(lang_code(arg.v))
    /\ UNCHANGED arg /\ UnchangedUI

NextFn ==
    \/ Call_classify_error
    \/ Call_get_severity
    \/ Call_generate_explanation
    \/ Call_speech_to_text
    \/ Call_lang_code

SpecFn == InitFn /\ [][NextFn]_vars

-----------------------------------------------------------------------------
(* translator_page: one run of the script *)

\* the keys of the Common Network Issues buttons, f"err_{idx}"
ErrKeys == <<"err_0", "err_1", "err_2", "err_3", "err_4">>

QUICK_FIXES ==
    [category \in {"DNS", "SSL", "Connection", "Network"} |->
        CASE category = "DNS" -> "ipconfig /flushdns"
          [] category = "SSL" -> "sudo update-ca-certificates"
          [] category = "Connection" -> "ping 8.8.8.8"
          [] category = "Network" -> "netsh winsock reset"]

\* st.session_state.get('input_text', '')
session_input_text(ss) == IF "input_text" \in ss.present THEN ss.input_text ELSE ""

\* st.session_state.input_text = text
set_input_text(ss, text) ==
    [ss EXCEPT !.present = @ \cup {"input_text"}, !.input_text = text]

\* st.session_state.history.append(entry)
history_append(ss, entry) == [ss EXCEPT !.history = Append(@, entry)]

\* reversed(seq)
reversed(seq) == [i \in 1..Len(seq) |-> seq[Len(seq) + 1 - i]]

\* seq[-n:]
last_n(seq, n) == SubSeq(seq, Len(seq) - Min(n, Len(seq)) + 1, Len(seq))

\* the display with the slice taken from the front of the list: history[:3]
recent_oldest(history) == reversed(SubSeq(history, 1, Min(3, Len(history))))

\* reversed(st.session_state.history[-3:])
recent(history) == reversed(last_n(history, 3))

\* input_text read back from the session state
cached_input_text(ss) == session_input_text(ss)

\* input_text = "": what input_text holds unless a widget assigns it
initial_input_text(ss) == ""

\* st.button(...) of the button with this key: True in the run its press started
button(pressed, key) == pressed = key

\* The value a widget has in a run: its stored value when it was on the page
\* in the previous run, else its first option.
widget_value(stored, first) == IF stored = "" THEN first ELSE stored

\* The text area in a run.  Its value argument is part of its identity: when
\* the area was not on the page, or the value argument changed, it shows the
\* value argument; otherwise it keeps what the user typed.
text_area(stored, value_arg) ==
    IF stored.rendered /\ stored.default = value_arg
    THEN stored
    ELSE [rendered |-> TRUE, default |-> value_arg, value |-> value_arg]

NoCopy == NoneValue

Outcome(ss, w, o, copied) == [ss |-> ss, w |-> w, out |-> o, copied |-> copied]

\* a run that ended at a `return` or an exception: what lies below it in the
\* script is not on the page
Returned_early(ss, w, o) ==
    Outcome(ss, [w EXCEPT !.feedback = NotShown], [o EXCEPT !.returned = TRUE], NoCopy)

\* lines 336-341: the Feedback System
feedback_section(r) ==
    LET feedback == IF r.w.feedback = NotShown THEN "" ELSE r.w.feedback
    IN  [r EXCEPT !.w.feedback = feedback,
                  !.out.messages =
                      @ \o (IF feedback # ""
                            THEN << Msg("success", "Thank you for your feedback!") >>
                            ELSE << >>)]

\* lines 276-334: the body of `if st.button("Analyze Error")`, entered with
\* the run's session state, widgets and input_text
analyze(ss, w, pressed, input_text, api) ==
    IF strip(input_text) = ""
    THEN Returned_early(ss, w,
                 [pressed |-> pressed, input_text |-> input_text,
                  messages |-> << Msg("warning", "Please enter error details") >>,
                  requests |-> << >>, api |-> NoApi, raised |-> FALSE,
                  returned |-> FALSE, result |-> NoResult])
    ELSE
    LET g == generate_explanation(input_text, lang_code(w.selected_lang), api)
    IN  IF ~truthy(g.ret)
        THEN Returned_early(ss, w,
                     [pressed |-> pressed, input_text |-> input_text,
                      messages |-> g.messages
                          \o << Msg("error", "Failed to generate explanation") >>,
                      requests |-> g.requests, api |-> api, raised |-> FALSE,
                      returned |-> FALSE, result |-> NoResult])
        ELSE
        LET explanation == g.ret.v
            error_category == classify_error(explanation)
            severity_level == get_severity(explanation)
            ss1 == history_append(ss, [error |-> input_text,
                                       explanation |-> explanation,
                                       category |-> error_category,
                                       severity |-> severity_level])
            has_fix == error_category \in DOMAIN QUICK_FIXES
            fix == IF has_fix THEN QUICK_FIXES[error_category] ELSE ""
            copy == has_fix /\ button(pressed, "copy_cmd")
        IN  Outcome(ss1,
                    [w EXCEPT !.buttons = IF has_fix THEN @ \cup {"copy_cmd"} ELSE @],
                    [pressed |-> pressed, input_text |-> input_text,
                     messages |-> g.messages \o
                         (IF copy
                          THEN << Msg("toast", "Command copied to clipboard!") >>
                          ELSE << >>),
                     requests |-> g.requests, api |-> api, raised |-> FALSE,
                     returned |-> FALSE,
                     result |-> [shown |-> TRUE, severity |-> severity_level,
                                 category |-> error_category,
                                 explanation |-> explanation, fix |-> fix,
                                 recent |-> recent(ss1.history)]],
                    IF copy THEN Some(fix) ELSE NoCopy)

\* lines 275-341, from `# Main Processing` on
main_processing(ss, w, pressed, input_text, messages, api) ==
    LET w1 == [w EXCEPT !.buttons = @ \cup {"analyze"}]
    IN  IF button(pressed, "analyze")
        THEN LET r == analyze(ss, w1, pressed, input_text, api)
                 r1 == [r EXCEPT !.out.messages = messages \o @]
             IN  IF r1.out.returned THEN r1 ELSE feedback_section(r1)
        ELSE feedback_section(
                 Outcome(ss, w1,
                         [pressed |-> pressed, input_text |-> input_text,
                          messages |-> messages, requests |-> << >>, api |-> NoApi,
                          raised |-> FALSE, returned |-> FALSE, result |-> NoResult],
                         NoCopy))

\* translator_page(), run with the widget values w, the button `pressed`, and
\* the environment: the API key, what the endpoint and the microphone do
translator_page(ss, w, pressed, key, api, env) ==
    LET ss1 == IF "history" \in ss.present THEN ss
               ELSE [ss EXCEPT !.present = @ \cup {"history"}, !.history = << >>]
    IN
    IF ~key
    THEN \* initialize_groq_client() returns None: nothing below is shown
         Returned_early(ss1, [WidgetsInit EXCEPT !.page = w.page],
                 [pressed |-> pressed, input_text |-> "",
                  messages |-> << Msg("error", "GROQ_API_KEY not found in .env file") >>,
                  requests |-> << >>, api |-> NoApi, raised |-> FALSE,
                  returned |-> FALSE, result |-> NoResult])
    ELSE
    LET ss2 == IF \E i \in 1..Len(COMMON_ERRORS) : button(pressed, ErrKeys[i])
               THEN LET i == CHOOSE j \in 1..Len(COMMON_ERRORS) : button(pressed, ErrKeys[j])
                    IN  set_input_text(ss1, COMMON_ERRORS[i].desc)
               ELSE ss1
        err_buttons == {ErrKeys[i] : i \in 1..Len(COMMON_ERRORS)}
        selected_lang == widget_value(w.selected_lang, LANGUAGE_CODES[1].k)
        input_method == widget_value(w.input_method, "Text")
    IN
    IF input_method = "Text"
    THEN LET ta == text_area(w.text_area, session_input_text(ss2))
             w1 == [page |-> w.page, selected_lang |-> selected_lang,
                    input_method |-> input_method, voice_lang |-> "",
                    text_area |-> ta, feedback |-> w.feedback,
                    buttons |-> err_buttons]
         IN  main_processing(ss2, w1, pressed, ta.value, << >>, api)
    ELSE LET voice_lang == widget_value(w.voice_lang, LANGUAGE_CODES[1].k)
             w1 == [page |-> w.page, selected_lang |-> selected_lang,
                    input_method |-> input_method, voice_lang |-> voice_lang,
                    text_area |-> NoTextArea, feedback |-> w.feedback,
                    buttons |-> err_buttons \cup {"record"}]
         IN  IF button(pressed, "record")
             THEN LET r == speech_to_text(language_code_of(voice_lang), env)
                  IN  IF r.raised
                      THEN \* the exception ends the run where it is
                           Returned_early(ss2, w1,
                                   [pressed |-> pressed, input_text |-> "",
                                    messages |-> r.messages, requests |-> << >>,
                                    api |-> NoApi, raised |-> TRUE,
                                    returned |-> FALSE, result |-> NoResult])
                      ELSE LET input_text == r.ret.v
                               ss3 == IF input_text # ""
                                      THEN set_input_text(ss2, input_text)
                                      ELSE ss2
                           IN  main_processing(ss3, w1, pressed, input_text,
                                               r.messages, api)
             ELSE main_processing(ss2, w1, pressed, initial_input_text(ss2),
                                  << >>, api)

\* main(): the sidebar radio routes to one page
main(ss, w, pressed, key, api, env) ==
    IF w.page = "Translator"
    THEN translator_page(ss, w, pressed, key, api, env)
    ELSE \* landing_page() and about_us_page() show static content
         Outcome(ss, [WidgetsInit EXCEPT !.page = w.page],
                 [pressed |-> pressed, input_text |-> "", messages |-> << >>,
                  requests |-> << >>, api |-> NoApi, raised |-> FALSE,
                 returned |-> FALSE, result |-> NoResult],
                 NoCopy)

-----------------------------------------------------------------------------
(* Spec: a user session.  Every interaction starts one run of main(). *)

Pages == {"Landing Page", "Translator", "About Us"}

\* what the user of the model chooses among
UserLanguages == {"English", "Sotho"}
UserVoiceLanguages == {"English", "Urdu"}
UserTexts == {"   ", "dns timeout"}
UserErrors == {4}
UserFeedback == {":thumbsup:"}

\* what the endpoint answers in the model
ApiOutcomesUI ==
    {ApiRaise, ApiAnswer(NoneValue), ApiAnswer(Some("")),
     ApiAnswer(Some("This is a critical SSL certificate warning"))}

\* what the microphone and the recognizer do in the model
SpeechEnvsUI ==
    {SpeechEnv("fail", "ok", "ok", ""), SpeechEnv("ok", "timeout", "ok", ""),
     SpeechEnv("ok", "ok", "error", ""), SpeechEnv("ok", "ok", "ok", "connection refused")}

NoArg == Arg("none", "", NoApi, NoEnv)

Init ==
    /\ fn = "none" /\ arg = NoArg /\ res = NoRes
    /\ api_key \in BOOLEAN
    /\ InitUI

\* the state a run leaves
Apply(r) ==
    \E o \in {r} :
    /\ session_state' = o.ss
    /\ widgets' = o.w
    /\ out' = o.out
    /\ clipboard' = IF o.copied.some THEN o.copied.v ELSE clipboard
    /\ UNCHANGED <<fn, arg, res, api_key>>

\* a run in which no button reads as pressed
Rerun(w) == Apply(main(session_state, w, "none", api_key, NoApi, NoEnv))

\* the sidebar radio
Navigate(p) ==
    /\ p # widgets.page
    /\ Rerun([widgets EXCEPT !.page = p])

\* the Output Language selectbox
SelectLanguage(l) ==
    /\ widgets.selected_lang # "" /\ l # widgets.selected_lang
    /\ Rerun([widgets EXCEPT !.selected_lang = l])

\* the Input Method radio
SelectInputMethod(m) ==
    /\ widgets.input_method # "" /\ m # widgets.input_method
    /\ Rerun([widgets EXCEPT !.input_method = m])

\* the Voice Input Language selectbox
SelectVoiceLanguage(l) ==
    /\ widgets.voice_lang # "" /\ l # widgets.voice_lang
    /\ Rerun([widgets EXCEPT !.voice_lang = l])

\* the Network Error Details text area
TypeText(t) ==
    /\ widgets.text_area.rendered /\ t # widgets.text_area.value
    /\ Rerun([widgets EXCEPT !.text_area.value = t])

\* the Was this helpful? radio
SelectFeedback(f) ==
    /\ widgets.feedback # NotShown /\ f # widgets.feedback
    /\ Rerun([widgets EXCEPT !.feedback = f])

\* one of the Common Network Issues buttons
PressCommonError(i) ==
    /\ ErrKeys[i] \in widgets.buttons
    /\ Apply(main(session_state, widgets, ErrKeys[i], api_key, NoApi, NoEnv))

\* the Start Recording button
PressStartRecording(env) ==
    /\ "record" \in widgets.buttons
    /\ Apply(main(session_state, widgets, "record", api_key, NoApi, env))

\* the Analyze Error button
PressAnalyze(api) ==
    /\ "analyze" \in widgets.buttons
    /\ Len(session_state.history) < MaxHistory \/ ~truthy(api.content)
    /\ Apply(main(session_state, widgets, "analyze", api_key, api, NoEnv))

\* the Copy Command button
PressCopyCommand ==
    /\ "copy_cmd" \in widgets.buttons
    /\ Apply(main(session_state, widgets, "copy_cmd", api_key, NoApi, NoEnv))

Next ==
    \/ \E p \in Pages : Navigate(p)
    \/ \E l \in UserLanguages : SelectLanguage(l)
    \/ \E m \in {"Text", "Voice"} : SelectInputMethod(m)
    \/ \E l \in UserVoiceLanguages : SelectVoiceLanguage(l)
    \/ \E t \in UserTexts : TypeText(t)
    \/ \E f \in UserFeedback : SelectFeedback(f)
    \/ \E i \in UserErrors : PressCommonError(i)
    \/ \E env \in SpeechEnvsUI : PressStartRecording(env)
    \/ \E api \in ApiOutcomesUI : PressAnalyze(api)
    \/ PressCopyCommand

Spec == Init /\ [][Next]_vars

-----------------------------------------------------------------------------
(* Claims about the functions, checked under SpecFn *)

HasAny(text, kws) == \E kw \in kws : contains(lower(text), kw)

DnsKeywords == {"dns", "domain", "server"}
SslKeywords == {"ssl", "certificate", "handshake"}
ConnectionKeywords == {"connection", "timeout", "refused", "route"}

\* C1: get_severity returns "Critical" for every text that contains "critical"
\* or "severe" in any case, also when it contains "warning"; otherwise
\* "Warning" if it contains "warning", and "Info" if it contains none of them.
C1_SeverityAsClaimed ==
    fn = "get_severity" =>
        res.ret = Some(IF HasAny(arg.v, {"critical", "severe"}) THEN "Critical"
                       ELSE IF HasAny(arg.v, {"warning"}) THEN "Warning"
                       ELSE "Info")

\* C2: classify_error returns the first category, in the order DNS, SSL,
\* Connection, one of whose keywords occurs in the lower-cased text, and
\* "Network" exactly when no keyword occurs; the result is one of the four.
C2_ClassifyFirstMatch ==
    fn = "classify_error" =>
        /\ res.ret.some /\ ~res.raised
        /\ res.ret.v \in {"DNS", "SSL", "Connection", "Network"}
        /\ res.ret.v = "DNS" <=> HasAny(arg.v, DnsKeywords)
        /\ res.ret.v = "SSL" <=>
              ~HasAny(arg.v, DnsKeywords) /\ HasAny(arg.v, SslKeywords)
        /\ res.ret.v = "Connection" <=>
              /\ ~HasAny(arg.v, DnsKeywords \cup SslKeywords)
              /\ HasAny(arg.v, ConnectionKeywords)
        /\ res.ret.v = "Network" <=>
              ~HasAny(arg.v, DnsKeywords \cup SslKeywords \cup ConnectionKeywords)

\* an upper-case SSL keyword followed by a mixed-case DNS keyword is DNS
C2_Witness ==
    fn = "classify_error" /\ arg.v = "SSLDomain" /\ res.ret = Some("DNS")

\* C4: for a language code that is no key of system_prompts the system
\* message is the English prompt followed by the instruction suffix; for a
\* key it is that language's prompt followed by the suffix.
C4_SystemMessageAsClaimed ==
    fn = "generate_explanation" =>
        /\ Len(res.requests) = 1
        /\ res.requests[1][1].role = "system"
        /\ res.requests[1][1].content =
              (IF arg.v \in DOMAIN system_prompts
               THEN system_prompts[arg.v]
               ELSE system_prompts["en"]) \o InstructionSuffix

\* the items of LANGUAGE_CODES whose lower-cased name starts with the
\* lower-cased first two characters of name
PrefixMatches(name) ==
    {i \in 1..Len(LANGUAGE_CODES) :
        startswith(lower(LANGUAGE_CODES[i].k), lower(prefix(name, 2)))}

\* C6 as stated: the lookup yields "en" for every display name that is empty
\* or is not a supported language name, and one two-letter code for every
\* supported name.
C6_LookupAsClaimed ==
    fn = "lang_code" =>
        /\ (arg.v = "" \/ arg.v \notin LanguageNames) => res.ret = Some("en")
        /\ arg.v \in LanguageNames => res.ret.some /\ Len(res.ret.v) = 2

\* C6 as amended: the lookup yields "en" for every display name that is empty
\* or whose first two characters, compared without case, start no supported
\* language name; for every supported name it yields exactly one two-letter
\* code, the first two letters of that name's BCP-47 tag; and for any other
\* name the first two letters of the tag of the first supported name, in
\* table order, that its first two characters start.
C6_LookupByPrefix ==
    fn = "lang_code" =>
        /\ res.ret.some /\ ~res.raised
        /\ (arg.v = "" \/ PrefixMatches(arg.v) = {}) => res.ret.v = "en"
        /\ arg.v \in LanguageNames =>
              /\ Len(res.ret.v) = 2
              /\ res.ret.v = prefix(language_code_of(arg.v), 2)
        /\ PrefixMatches(arg.v) # {} =>
              LET first == CHOOSE i \in PrefixMatches(arg.v) :
                              \A j \in PrefixMatches(arg.v) : i <= j
              IN  res.ret.v = prefix(LANGUAGE_CODES[first].v, 2)

\* an unsupported name whose first two characters start no supported name
C6_Witness ==
    /\ fn = "lang_code" /\ arg.v = "German" /\ res.ret = Some("en")
    /\ PrefixMatches(arg.v) = {}

\* C8: speech_to_text always returns a string and no failure leaves it: a
\* capture timeout gives "" with a warning, any other failure (the microphone
\* failing to open included) gives "" with an error, and otherwise the
\* transcript is returned.
C8_SpeechNeverRaises ==
    fn = "speech_to_text" =>
        /\ ~res.raised
        /\ res.ret.some
        /\ LET failed == arg.env.mic = "fail" \/ arg.env.listen # "ok"
                         \/ arg.env.recognize = "error"
               levels == {res.messages[i].level : i \in 1..Len(res.messages)}
           IN  IF arg.env.mic = "ok" /\ arg.env.listen = "timeout"
               THEN res.ret.v = "" /\ "warning" \in levels
               ELSE IF failed
               THEN res.ret.v = "" /\ "error" \in levels
               ELSE res.ret.v = arg.env.transcript

-----------------------------------------------------------------------------
(* Claims about a session, checked under Spec *)

Shown(o, m) == \E i \in 1..Len(o.messages) : o.messages[i] = m

FailedMsg == Msg("error", "Failed to generate explanation")
EmptyMsg == Msg("warning", "Please enter error details")

\* the endpoint raised, or answered None or ""
NoExplanation(api) == api.kind = "raise" \/ ~api.content.some \/ api.content.v = ""

\* every character of t is a space, a tab or a newline (so also t = "")
Blank(t) == \A i \in 1..Len(t) : SubSeq(t, i, i) \in {" ", "\t", "\n"}

\* C3: when the chat-completion call of an Analyze Error request fails (it
\* raises, or answers with no explanation), nothing is displayed as the
\* explanation, the user sees "Failed to generate explanation", the history
\* is left as it was, and the request makes no second call.
C3_FailedCallIsTerminal ==
    [][(out'.pressed = "analyze" /\ out'.requests # << >> /\ NoExplanation(out'.api))
       => /\ out'.result = NoResult
          /\ Shown(out', FailedMsg)
          /\ session_state'.history = session_state.history
          /\ Len(out'.requests) = 1]_vars

\* a call that raised, and one that answered "", in a session with history
C3_Witness ==
    /\ out.pressed = "analyze" /\ Len(out.requests) = 1
    /\ out.api \in {ApiRaise, ApiAnswer(Some(""))}
    /\ Shown(out, FailedMsg)
    /\ Len(session_state.history) >= 1

\* C5: every step leaves the history as it was or appends one entry to it,
\* and it appends exactly in the runs that complete an analysis, the entry
\* being that analysis; the Recent Analyses display of such a run shows the
\* last min(3, n) entries of the n recorded, newest first.
C5_HistoryAppendOnly ==
    [][LET h == session_state.history
           h2 == session_state'.history
           n == Len(h2)
       IN  /\ out'.result.shown =>
                /\ out'.pressed = "analyze"
                /\ h2 = Append(h, [error |-> out'.input_text,
                                   explanation |-> out'.result.explanation,
                                   category |-> out'.result.category,
                                   severity |-> out'.result.severity])
                /\ Len(out'.result.recent) = Min(3, n)
                /\ \A i \in 1..Min(3, n) : out'.result.recent[i] = h2[n + 1 - i]
           /\ ~out'.result.shown => h2 = h]_vars

\* after five insertions the display holds entries 5, 4, 3
C5_Witness ==
    LET h == session_state.history
    IN  /\ Len(h) = 5 /\ out.result.shown
        /\ out.result.recent = << h[5], h[4], h[3] >>
        /\ h[1] # h[3] /\ h[3] # h[4] /\ h[4] # h[5]

\* C7: an Analyze Error press whose input text is empty or only whitespace
\* makes no chat-completion call, shows "Please enter error details", and
\* leaves the history as it was.
C7_EmptyInputMakesNoCall ==
    [][(out'.pressed = "analyze" /\ Blank(out'.input_text))
       => /\ out'.requests = << >>
          /\ Shown(out', EmptyMsg)
          /\ ~out'.result.shown
          /\ session_state'.history = session_state.history]_vars

\* a whitespace-only text in the text area, analysed
C7_Witness ==
    /\ out.pressed = "analyze" /\ out.input_text = "   "
    /\ widgets.input_method = "Text" /\ widgets.text_area.value = "   "
    /\ Shown(out, EmptyMsg)
    /\ Len(session_state.history) >= 1

\* C9: pressing Copy Command after an analysis displayed a quick-fix command
\* writes that command to the clipboard.
C9_CopyWritesClipboard ==
    [][out'.pressed = "copy_cmd" => clipboard' = out.result.fix]_vars

\* C10: with the input method Voice, an Analyze Error press runs with an empty
\* input text, so it makes no chat-completion call, shows the empty-input
\* warning and records nothing, whatever the session state holds.
C10_VoiceAnalyzeIsEmpty ==
    [][(out'.pressed = "analyze" /\ widgets'.input_method = "Voice")
       => /\ out'.input_text = ""
          /\ out'.requests = << >>
          /\ Shown(out', EmptyMsg)
          /\ ~out'.result.shown
          /\ session_state'.history = session_state.history]_vars

\* a transcript was recognized and cached, then Analyze Error was pressed
C10_Witness ==
    /\ out.pressed = "analyze" /\ widgets.input_method = "Voice"
    /\ "input_text" \in session_state.present
    /\ session_state.input_text = "connection refused"
    /\ Shown(out, EmptyMsg)

=============================================================================
